---- MODULE Spec2Model ----
(***************************************************************************)
(* Battery rental service (Flask + SQLAlchemy): the Rent, Return and       *)
(* Charge handlers of app.py, page and API variants, as concurrent         *)
(* request handlers over one database.                                     *)
(*                                                                         *)
(* A handler reads its rows with session.get (a plain SELECT, no           *)
(* with_for_update), computes in Python on the loaded objects, and the     *)
(* unit of work writes the changed attributes back as absolute values when *)
(* the "with session.begin()" block commits.  A handler is therefore two   *)
(* database steps, the reads and the flush+commit, and other requests may  *)
(* commit between them.                                                    *)
(***************************************************************************)
EXTENDS Integers, Sequences, FiniteSets, Bags, TLC

\* ---------------------------------------------------------------- constants
PRICE_PER_MINUTE_CENTS == 10
RENTAL_DEPOSIT_CENTS == 1000

\* ------------------------------------------------------------------- bounds
\* The balance register_page gives a new user.  app.py imports it from
\* variables.py, which sets no value for it; the model takes the deposit, the
\* least balance with which a new user can rent.
INITIAL_BALANCE_CENTS == 1000

\* Rows Rent and Charge may add to the rentals table.
MaxInserts == 2

UserIds == {1, 2}
BatteryIds == {1}
\* The request handlers running at once (threads of the server).
Workers == {1, 2}
ChargeAmounts == {500}
\* The readings datetime.utcnow() takes, in seconds.
Instants == {0, 30, 6090}

\* A nullable column: <<>> is NULL, <<v>> holds v.
NULL == <<>>
Some(v) == <<v>>
Val(x) == x[1]

Max(a, b) == IF a >= b THEN a ELSE b

VARIABLES
    user_rows,      \* ids of the rows of table users
    balance_cents,  \* users.balance_cents, by user id
    available,      \* batteries.available, by battery id
    station_id,     \* batteries.station_id, by battery id
    rentals,        \* table rentals: row i has id i
    now,            \* datetime.utcnow(), in seconds
    inflight,       \* the bag of requests being served: [req, pc, loaded]
    resp            \* the response the last step sent, NoResp when it sent none

vars == <<user_rows, balance_cents, available, station_id, rentals, now, inflight, resp>>

db == <<user_rows, balance_cents, available, station_id, rentals>>

\* What a session has loaded, and computed from it, when nothing is loaded.
NoLoaded == [balance |-> 0, available |-> NULL, rental |-> NULL, end_time |-> 0, price |-> 0]
NoResp == [msg |-> "none", kind |-> "none", rental_id |-> 0]

\* A request: kind is rent, return or charge; arg is the battery id, the
\* rental id or the amount.
Request(kind, u, arg, s) == [kind |-> kind, user_id |-> u, arg |-> arg, station |-> s]

\* A request being served: pc is "pre" after a page's first session and "tx"
\* once the transaction has read and validated, its commit pending.
Serving(q, pc, l) == [req |-> q, pc |-> pc, loaded |-> l]

RentalIds == 1..Len(rentals)

\* The start_at of a row inserted without one: the handlers pass none and rely
\* on the column default of models.Rental, the time of creation.
start_at_default == now

\* Rental(...) as the handlers construct it: user_id, battery_id, status and,
\* for a charge, price_cents; the nullable columns left out are NULL.
Rental(u, b, status, price) ==
    [user_id |-> u, battery_id |-> b, status |-> status, start_at |-> start_at_default,
     end_at |-> NULL, return_station_id |-> NULL, price_cents |-> price]

\* Price without the one-minute minimum: C10 must tell it from Price.
PriceNoMinimum(start_time, end_time) ==
    ((end_time - start_time) \div 60) * PRICE_PER_MINUTE_CENTS

\* minutes = max(1, int((end_time - start_time).total_seconds() // 60));
\* price = minutes * PRICE_PER_MINUTE_CENTS
Price(start_time, end_time) ==
    Max(1, (end_time - start_time) \div 60) * PRICE_PER_MINUTE_CENTS

\* The unit of work writes a column only when the attribute was set to a value
\* other than the loaded one; otherwise the row keeps what the database holds.
Flush(loaded_value, new_value, current) ==
    IF new_value = loaded_value THEN current ELSE new_value

\* register_page: the rows one registration commits, a user with the initial
\* balance and, when that is positive, its "charged" record.
RegisterRental(u) ==
    IF INITIAL_BALANCE_CENTS > 0
    THEN <<Rental(u, NULL, "charged", Some(-INITIAL_BALANCE_CENTS))>>
    ELSE <<>>

\* The database once users 1 and 2 have registered, before any Rent, Return
\* or Charge; every battery is in its station.
Init ==
    /\ now = 0
    /\ user_rows = UserIds
    /\ balance_cents = [u \in UserIds |-> INITIAL_BALANCE_CENTS]
    /\ rentals = RegisterRental(1) \o RegisterRental(2)
    /\ available = [b \in BatteryIds |-> TRUE]
    /\ station_id = [b \in BatteryIds |-> Some(1)]
    /\ inflight = EmptyBag
    /\ resp = NoResp

\* Rows may still be inserted (the model's cap on the rentals table).
CanInsert == Len(rentals) < Len(RegisterRental(1) \o RegisterRental(2)) + MaxInserts

\* A worker is free to take a new request.
Free == BagCardinality(inflight) < Cardinality(Workers)

\* A request is answered with message m before anything is pending for it.
Refuse(q, m) ==
    /\ resp' = [msg |-> m, kind |-> q.kind, rental_id |-> 0]
    /\ UNCHANGED inflight

\* A new request q stays in flight at position pc with l loaded.
Start(q, pc, l) ==
    /\ inflight' = inflight (+) SetToBag({Serving(q, pc, l)})
    /\ resp' = NoResp

\* The request t in flight moves on to position pc with l loaded.
Continue(t, pc, l) ==
    /\ inflight' = (inflight (-) SetToBag({t})) (+) SetToBag({Serving(t.req, pc, l)})
    /\ resp' = NoResp

\* The request t in flight is answered with message m (and the rental's id).
Reply(t, m, id) ==
    /\ inflight' = inflight (-) SetToBag({t})
    /\ resp' = [msg |-> m, kind |-> t.req.kind, rental_id |-> id]

\* The clock advances.
Tick ==
    /\ \E t \in Instants : t > now /\ now' = t
    /\ resp' = NoResp
    /\ UNCHANGED <<db, inflight>>

\* ------------------------------------------------------------------- Rent
\* Rent's checks without the deposit gate: C7 must tell them from RentCheck.
RentCheckNoDeposit(u, b) ==
    IF b \notin BatteryIds \/ ~available[b] THEN "battery not available"
    ELSE IF u \notin user_rows THEN "rental failed"
    ELSE "ok"

\* The validation both Rent handlers run on the rows they just read: the
\* response of the first failed check, or "ok".
RentCheck(u, b) ==
    IF b \notin BatteryIds \/ ~available[b] THEN "battery not available"
    ELSE IF u \notin user_rows THEN "rental failed"
    ELSE IF balance_cents[u] < RENTAL_DEPOSIT_CENTS THEN "insufficient balance"
    ELSE "ok"

\* The battery as the Rent transaction loaded it.
RentLoaded(q) == [NoLoaded EXCEPT !.available = Some(available[q.arg])]

\* api_rent up to the end of its checks.
ApiRentBegin(u, b) ==
    /\ Free
    /\ LET q == Request("rent", u, b, NULL)
       IN IF RentCheck(u, b) = "ok" THEN Start(q, "tx", RentLoaded(q))
          ELSE Refuse(q, RentCheck(u, b))
    /\ UNCHANGED <<db, now>>

\* rent_page, POST: the first session's checks, before the transaction.
RentPagePre(u, b) ==
    /\ Free
    /\ LET q == Request("rent", u, b, NULL)
       IN IF RentCheck(u, b) = "ok" THEN Start(q, "pre", NoLoaded)
          ELSE IF RentCheck(u, b) = "rental failed" THEN Refuse(q, "server error")
          ELSE Refuse(q, RentCheck(u, b))
    /\ UNCHANGED <<db, now>>

\* rent_page, POST: the transaction up to the end of its checks.
RentPageBegin(t) ==
    /\ t.pc = "pre"
    /\ t.req.kind = "rent"
    /\ IF RentCheck(t.req.user_id, t.req.arg) = "ok" THEN Continue(t, "tx", RentLoaded(t.req))
       ELSE Reply(t, RentCheck(t.req.user_id, t.req.arg), 0)
    /\ UNCHANGED <<db, now>>

\* What the commit of a Rent transaction does to batteries.available.
RentBattery(t) ==
    [available EXCEPT ![t.req.arg] = Flush(Val(t.loaded.available), FALSE, @)]

\* A Rent that withdraws the deposit: C24 must tell it from RentCommit.
RentCommitWithdraws(t) ==
    /\ t.pc = "tx"
    /\ t.req.kind = "rent"
    /\ CanInsert
    /\ rentals' = Append(rentals, Rental(t.req.user_id, Some(t.req.arg), "ongoing", NULL))
    /\ available' = RentBattery(t)
    /\ balance_cents' = [balance_cents EXCEPT ![t.req.user_id] = @ - RENTAL_DEPOSIT_CENTS]
    /\ Reply(t, "rented", Len(rentals) + 1)
    /\ UNCHANGED <<user_rows, station_id, now>>

\* The flush and commit of a Rent transaction: the ongoing Rental is inserted
\* and the battery is written unavailable.
RentCommit(t) ==
    /\ t.pc = "tx"
    /\ t.req.kind = "rent"
    /\ CanInsert
    /\ rentals' = Append(rentals, Rental(t.req.user_id, Some(t.req.arg), "ongoing", NULL))
    /\ available' = RentBattery(t)
    /\ Reply(t, "rented", Len(rentals) + 1)
    /\ UNCHANGED <<user_rows, balance_cents, station_id, now>>

\* ----------------------------------------------------------------- Return
\* A check of the rental that leaves out its owner: C27 must tell it from
\* ValidRental.
ValidRentalAnyOwner(u, r) ==
    /\ r \in RentalIds
    /\ rentals[r].status = "ongoing"

\* rental must exist, belong to the caller and be ongoing.
ValidRental(u, r) ==
    /\ r \in RentalIds
    /\ rentals[r].user_id = u
    /\ rentals[r].status = "ongoing"

\* The rental, its battery and the user as the Return transaction of request
\* q loads them, with the end time and the price it computes.
ReturnLoaded(q) ==
    [balance |-> balance_cents[q.user_id],
     available |-> Some(available[Val(rentals[q.arg].battery_id)]),
     rental |-> Some(rentals[q.arg]),
     end_time |-> now,
     price |-> Price(rentals[q.arg].start_at, now)]

\* A balance check that lets every Return through: C8 must tell it from CanPay.
CanPayAlways(l) == TRUE

\* The balance check of a Return transaction on what it loaded.
CanPay(l) == ~(l.balance < l.price)

\* api_return up to the end of its checks.
ApiReturnBegin(u, r) ==
    /\ Free
    /\ LET q == Request("return", u, r, NULL)
       IN IF ~ValidRental(u, r) THEN Refuse(q, "invalid rental")
          ELSE IF ~CanPay(ReturnLoaded(q)) THEN Refuse(q, "insufficient balance")
          ELSE Start(q, "tx", ReturnLoaded(q))
    /\ UNCHANGED <<db, now>>

\* return_page, POST: the first session's check of the rental.
ReturnPagePre(u, r, s) ==
    /\ Free
    /\ LET q == Request("return", u, r, s)
       IN IF ~ValidRental(u, r) THEN Refuse(q, "invalid rental")
          ELSE Start(q, "pre", NoLoaded)
    /\ UNCHANGED <<db, now>>

\* return_page, POST: the transaction up to its balance check; the rental is
\* read again and not checked again.
ReturnPageBegin(t) ==
    /\ t.pc = "pre"
    /\ t.req.kind = "return"
    /\ IF ~CanPay(ReturnLoaded(t.req)) THEN Reply(t, "insufficient balance", 0)
       ELSE Continue(t, "tx", ReturnLoaded(t.req))
    /\ UNCHANGED <<db, now>>

\* What the commit of a Return transaction does to users.balance_cents.
ReturnBalance(t) ==
    [balance_cents EXCEPT ![t.req.user_id] =
        Flush(t.loaded.balance, t.loaded.balance - t.loaded.price, @)]

\* A Return that leaves end_at unset: C21 must tell it from ReturnRental.
ReturnRentalNoEnd(t) ==
    LET row == Val(t.loaded.rental)
    IN [rentals EXCEPT ![t.req.arg] =
           [@ EXCEPT !.price_cents = Flush(row.price_cents, Some(t.loaded.price), @),
                     !.status = Flush(row.status, "returned", @)]]

\* A Return that leaves price_cents unset: C22 must tell it from ReturnRental.
ReturnRentalNoPrice(t) ==
    LET row == Val(t.loaded.rental)
    IN [rentals EXCEPT ![t.req.arg] =
           [@ EXCEPT !.end_at = Flush(row.end_at, Some(t.loaded.end_time), @),
                     !.status = Flush(row.status, "returned", @)]]

\* What the commit of a Return transaction does to the rental row.
ReturnRental(t) ==
    LET row == Val(t.loaded.rental)
    IN [rentals EXCEPT ![t.req.arg] =
           [@ EXCEPT !.end_at = Flush(row.end_at, Some(t.loaded.end_time), @),
                     !.price_cents = Flush(row.price_cents, Some(t.loaded.price), @),
                     !.status = Flush(row.status, "returned", @),
                     !.return_station_id =
                         IF t.req.station # NULL
                         THEN Flush(row.return_station_id, t.req.station, @)
                         ELSE @]]

\* A Return that leaves the battery as it is: C6 must tell it from
\* ReturnBattery.
ReturnBatteryKept(t) == available

\* What the commit of a Return transaction does to batteries.available.
ReturnBattery(t) ==
    [available EXCEPT ![Val(Val(t.loaded.rental).battery_id)] =
        Flush(Val(t.loaded.available), TRUE, @)]

\* A form value int() rejects, such as "abc".
NotAnInt == <<0, 0>>

\* A failed transaction that keeps the debit it had assigned: C14 must tell it
\* from Rollback.
RollbackKeepsDebit(t) ==
    /\ balance_cents' = ReturnBalance(t)
    /\ UNCHANGED <<user_rows, available, station_id, rentals>>

\* The transaction is rolled back: "with session.begin()" is left by an
\* exception, the pending changes of the session are dropped and no row is
\* written.
Rollback(t) == UNCHANGED db

\* return_page, POST: int(return_station_id) raises ValueError inside the
\* transaction, after the balance, the rental and the battery were assigned;
\* the handler answers that the return failed.
ReturnPageFail(t) ==
    /\ t.pc = "tx"
    /\ t.req.kind = "return"
    /\ t.req.station = NotAnInt
    /\ Rollback(t)
    /\ Reply(t, "return failed", 0)
    /\ UNCHANGED now

\* A Return that moves the battery to the station it names: C26 must tell it
\* from ReturnCommit.
ReturnCommitMovesBattery(t) ==
    /\ t.pc = "tx"
    /\ t.req.kind = "return"
    /\ t.req.station # NotAnInt
    /\ balance_cents' = ReturnBalance(t)
    /\ rentals' = ReturnRental(t)
    /\ available' = ReturnBattery(t)
    /\ station_id' = [station_id EXCEPT ![Val(Val(t.loaded.rental).battery_id)] =
                          IF t.req.station # NULL THEN t.req.station ELSE @]
    /\ Reply(t, "returned", t.req.arg)
    /\ UNCHANGED <<user_rows, now>>

\* The flush and commit of a Return transaction.
ReturnCommit(t) ==
    /\ t.pc = "tx"
    /\ t.req.kind = "return"
    /\ t.req.station # NotAnInt
    /\ balance_cents' = ReturnBalance(t)
    /\ rentals' = ReturnRental(t)
    /\ available' = ReturnBattery(t)
    /\ Reply(t, "returned", t.req.arg)
    /\ UNCHANGED <<user_rows, station_id, now>>

\* ----------------------------------------------------------------- Charge
\* The user as the Charge transaction loaded it.
ChargeLoaded(q) == [NoLoaded EXCEPT !.balance = balance_cents[q.user_id]]

\* The amount check of both Charge handlers and the read of the user row.
ChargeBegin(q) ==
    IF q.arg <= 0 THEN Refuse(q, "invalid amount")
    ELSE IF q.user_id \notin user_rows THEN Refuse(q, "charge failed")
    ELSE Start(q, "tx", ChargeLoaded(q))

\* api_charge up to the read of the user.
ApiChargeBegin(u, amount) ==
    /\ Free
    /\ ChargeBegin(Request("charge", u, amount, NULL))
    /\ UNCHANGED <<db, now>>

\* charge_page, POST, up to the read of the user.
ChargePageBegin(u, amount) ==
    /\ Free
    /\ ChargeBegin(Request("charge", u, amount, NULL))
    /\ UNCHANGED <<db, now>>

\* A Charge that sets the balance to the initial one plus its amount, so that
\* the last Charge decides: C17 must tell it from ChargeBalance.
ChargeBalanceLast(t) ==
    [balance_cents EXCEPT ![t.req.user_id] = INITIAL_BALANCE_CENTS + t.req.arg]

\* What the commit of a Charge transaction does to users.balance_cents.
ChargeBalance(t) ==
    [balance_cents EXCEPT ![t.req.user_id] =
        Flush(t.loaded.balance, t.loaded.balance + t.req.arg, @)]

\* The flush and commit of a Charge transaction.
ChargeCommit(t) ==
    /\ t.pc = "tx"
    /\ t.req.kind = "charge"
    /\ CanInsert
    /\ balance_cents' = ChargeBalance(t)
    /\ rentals' = Append(rentals, Rental(t.req.user_id, NULL, "charged", Some(-t.req.arg)))
    /\ Reply(t, "charged", 0)
    /\ UNCHANGED <<user_rows, available, station_id, now>>

\* ------------------------------------------------------------------ inputs
\* Rental ids a Return may name: 2, the record of user 2's initial balance (a
\* charged row, and for user 1 another user's row), and 3 and 4, the first
\* rows Rent and Charge insert (ids of no row until then).
RentalArgs == 2..4
\* The return_station_id a page Return submits.
StationArgs == {NULL}

\* The steps of the requests in flight.
RentPageTx == \E t \in BagToSet(inflight) : RentPageBegin(t)
RentTxCommit == \E t \in BagToSet(inflight) : RentCommit(t)
ReturnPageTx == \E t \in BagToSet(inflight) : ReturnPageBegin(t)
ReturnTxCommit == \E t \in BagToSet(inflight) : ReturnCommit(t)
ChargeTxCommit == \E t \in BagToSet(inflight) : ChargeCommit(t)

Next ==
    \/ Tick
    \/ \E u \in UserIds, b \in BatteryIds : ApiRentBegin(u, b)
    \/ \E u \in UserIds, b \in BatteryIds : RentPagePre(u, b)
    \/ RentPageTx
    \/ RentTxCommit
    \/ \E u \in UserIds, r \in RentalArgs : ApiReturnBegin(u, r)
    \/ \E u \in UserIds, r \in RentalArgs, s \in StationArgs : ReturnPagePre(u, r, s)
    \/ ReturnPageTx
    \/ ReturnTxCommit
    \/ \E u \in UserIds, a \in ChargeAmounts : ApiChargeBegin(u, a)
    \/ \E u \in UserIds, a \in ChargeAmounts : ChargePageBegin(u, a)
    \/ ChargeTxCommit

Spec == Init /\ [][Next]_vars

\* ------------------------------------------------------------ edge inputs
\* The same handlers with the inputs Spec leaves out: a caller without a user
\* row, a battery id without a battery row, amounts and station ids that are
\* not positive integers, a system clock that is set back, and the history
\* query.  Here a request is taken only when none is being served: what these
\* inputs do depends on no interleaving, and Spec has the interleavings.
\* User 1 is the registered caller and 3 has no user row; battery 2 has no
\* row.
UserArgs == {1, 3}
BatteryArgs == {1, 2}
\* The return_station_id a Return submits: none, station 2 (the batteries are
\* in station 1), or one int() rejects.
StationInputs == {NULL, Some(2), NotAnInt}

\* An amount as the request carries it: an integer, a number with a fraction
\* (v is in tenths) or a text that is no number.
IntAmount(n) == [type |-> "int", v |-> n]
RealAmount(tenths) == [type |-> "real", v |-> tenths]
TextAmount == [type |-> "text", v |-> 0]
\* 500, 300, 0, -500, 1.5 and "abc".
AmountInputs ==
    {IntAmount(500), IntAmount(300), IntAmount(0), IntAmount(-500), RealAmount(15), TextAmount}

\* int(x) of a number: the fraction is dropped, towards zero.
PyInt(raw) ==
    IF raw.type = "int" THEN raw.v
    ELSE IF raw.v >= 0 THEN raw.v \div 10
    ELSE -((-raw.v) \div 10)

\* api_charge: amount = int(data.get("amount", 0)) runs before the try block;
\* on a text that is no number it raises and the request ends in the 500
\* handler.
ApiCharge(u, raw) ==
    IF raw.type = "text"
    THEN /\ Free
         /\ Refuse(Request("charge", u, 0, NULL), "server error")
         /\ UNCHANGED <<db, now>>
    ELSE ApiChargeBegin(u, PyInt(raw))

\* charge_page, POST: int(amount_str) of the form field; anything but the
\* digits of an integer raises ValueError, answered as an invalid amount.
ChargePage(u, raw) ==
    IF raw.type # "int"
    THEN /\ Free
         /\ Refuse(Request("charge", u, 0, NULL), "invalid amount")
         /\ UNCHANGED <<db, now>>
    ELSE ChargePageBegin(u, raw.v)

\* The system clock is set back: datetime.utcnow() reads an earlier time.
Skew ==
    /\ \E t \in Instants : t < now /\ now' = t
    /\ resp' = NoResp
    /\ UNCHANGED <<db, inflight>>

\* api_return: of the JSON body only rental_id is read; a return_station_id in
\* it is not looked at.
ApiReturn(u, r, s) == ApiReturnBegin(u, r)

\* get_available_batteries_count: the batteries of a station that are available.
get_available_batteries_count(s) ==
    Cardinality({b \in BatteryIds : station_id[b] = Some(s) /\ available[b]})

ReturnPageFailTx == \E t \in BagToSet(inflight) : ReturnPageFail(t)

\* get_user_rentals_with_details: the rentals joined to their battery (an
\* inner join: a rental whose battery_id matches no battery row has no joined
\* row), then outer-joined to the battery's station, filtered by user and
\* ordered by start_at descending.  Rows of equal start_at come in any order,
\* so these are all the lists the query may return, as lists of rental ids.
get_user_rentals_with_details(u) ==
    LET joined == {r \in RentalIds :
                      /\ rentals[r].battery_id # NULL
                      /\ Val(rentals[r].battery_id) \in BatteryIds
                      /\ rentals[r].user_id = u}
    IN {h \in [1..Cardinality(joined) -> joined] :
           \A i, j \in 1..Cardinality(joined) :
               i < j => /\ h[i] # h[j]
                        /\ rentals[h[i]].start_at >= rentals[h[j]].start_at}

\* api_history and history_page: one entry per row of the query, in its order.
ApiHistory(u) ==
    /\ \E h \in get_user_rentals_with_details(u) :
          resp' = [msg |-> "history", kind |-> "history", rental_id |-> 0,
                   user_id |-> u, rows |-> h]
    /\ UNCHANGED <<db, now, inflight>>

\* No request is being served.
Idle == inflight = EmptyBag

\* The requests, each taken when none is being served.
SeqApiRent == Idle /\ \E u \in UserArgs, b \in BatteryArgs : ApiRentBegin(u, b)
SeqRentPage == Idle /\ \E u \in UserArgs, b \in BatteryArgs : RentPagePre(u, b)
SeqApiReturn ==
    Idle /\ \E u \in UserArgs, r \in RentalArgs, s \in StationInputs \ {NotAnInt} : ApiReturn(u, r, s)
SeqReturnPage ==
    Idle /\ \E u \in UserArgs, r \in RentalArgs, s \in StationInputs : ReturnPagePre(u, r, s)
SeqApiCharge == Idle /\ \E u \in UserArgs, raw \in AmountInputs : ApiCharge(u, raw)
SeqChargePage == Idle /\ \E u \in UserArgs, raw \in AmountInputs : ChargePage(u, raw)
SeqApiHistory == Idle /\ \E u \in UserArgs : ApiHistory(u)

NextEdge ==
    \/ Tick
    \/ Skew
    \/ SeqApiRent
    \/ SeqRentPage
    \/ RentPageTx
    \/ RentTxCommit
    \/ SeqApiReturn
    \/ SeqReturnPage
    \/ ReturnPageTx
    \/ ReturnPageFailTx
    \/ ReturnTxCommit
    \/ SeqApiCharge
    \/ SeqChargePage
    \/ ChargeTxCommit
    \/ SeqApiHistory

SpecEdge == Init /\ [][NextEdge]_vars

\* ================================================================== claims
\* The ongoing rentals that reference battery b.
Ongoing(b) ==
    {r \in RentalIds : rentals[r].status = "ongoing" /\ rentals[r].battery_id = Some(b)}

\* C1: of the concurrent Rent calls for one available battery exactly one
\* succeeds: whenever a Rent is answered "rented", the rental it created is the
\* only ongoing rental of its battery and the battery is unavailable.
C1_OneRentWins ==
    resp.msg = "rented" =>
        LET b == Val(rentals[resp.rental_id].battery_id)
        IN Ongoing(b) = {resp.rental_id} /\ ~available[b]

\* C2: in every committed state each battery has at most one ongoing rental,
\* and has one exactly when it is unavailable.
C2_OngoingIffUnavailable ==
    \A b \in BatteryIds :
        /\ Cardinality(Ongoing(b)) <= 1
        /\ (Ongoing(b) # {}) <=> ~available[b]

\* The credits recorded for user u minus the fees of u's returned rentals,
\* over the rows 1..n of the ledger.
RECURSIVE Ledger(_, _)
Ledger(u, n) ==
    IF n = 0 THEN 0
    ELSE Ledger(u, n - 1) +
         (IF rentals[n].user_id = u /\ rentals[n].status \in {"charged", "returned"}
          THEN -Val(rentals[n].price_cents) ELSE 0)

\* C3: in every committed state each user's balance equals the credits recorded
\* for the user minus the fees of the user's returned rentals.
C3_BalanceIsLedger ==
    \A u \in user_rows : balance_cents[u] = Ledger(u, Len(rentals))

\* C4: of two concurrent Returns of one ongoing rental exactly one settles it:
\* a Return commits its settlement only to a rental that is still ongoing.
C4_OneReturnSettles ==
    [][\A t \in BagToSet(inflight) :
          ReturnCommit(t) => rentals[t.req.arg].status = "ongoing"]_vars

\* C5: no balance update is lost: every committed Charge adds its amount to,
\* and every committed Return takes its fee from, the balance the database
\* holds at that commit.
C5_NoLostUpdate ==
    [][\A t \in BagToSet(inflight) :
          /\ ChargeCommit(t) =>
                balance_cents'[t.req.user_id] = balance_cents[t.req.user_id] + t.req.arg
          /\ ReturnCommit(t) =>
                balance_cents'[t.req.user_id] = balance_cents[t.req.user_id] - t.loaded.price]_vars

\* The Return request t is about to commit and the rows it loaded are still
\* what the database holds: nothing was committed to them since it read them.
Undisturbed(t) ==
    /\ rentals[t.req.arg] = Val(t.loaded.rental)
    /\ balance_cents[t.req.user_id] = t.loaded.balance
    /\ available[Val(Val(t.loaded.rental).battery_id)] = Val(t.loaded.available)

RentRefused(u, b) ==
    \/ (ApiRentBegin(u, b) \/ RentPagePre(u, b)) /\ UNCHANGED inflight
    \/ \E t \in BagToSet(inflight) :
          /\ t.req.user_id = u /\ t.req.arg = b
          /\ RentPageBegin(t)
          /\ inflight' = inflight (-) SetToBag({t})

\* Rent's checks run for user u and battery b in this step.
RentChecked(u, b) ==
    \/ ApiRentBegin(u, b)
    \/ RentPagePre(u, b)
    \/ \E t \in BagToSet(inflight) : t.req.user_id = u /\ t.req.arg = b /\ RentPageBegin(t)

\* C7 as stated: whenever Rent's checks run for a user whose balance is below
\* the deposit, the answer is "insufficient balance", nothing stays pending
\* and no row changes.
C7_LowBalanceInsufficient ==
    [][\A u \in UserIds, b \in BatteryIds :
          (balance_cents[u] < RENTAL_DEPOSIT_CENTS /\ RentChecked(u, b)) =>
              /\ RentRefused(u, b)
              /\ resp'.msg = "insufficient balance"
              /\ UNCHANGED db]_vars

\* C7 amended: whenever Rent's checks run for a user whose balance is below
\* the deposit, Rent fails, nothing stays pending and no row changes; the
\* answer is "insufficient balance" when the battery is available and
\* "battery not available" when it is not, the battery being checked first.
C7_LowBalanceRefused ==
    [][\A u \in UserIds, b \in BatteryIds :
          (balance_cents[u] < RENTAL_DEPOSIT_CENTS /\ RentChecked(u, b)) =>
              /\ RentRefused(u, b)
              /\ resp'.kind = "rent"
              /\ resp'.msg = IF available[b] THEN "insufficient balance"
                             ELSE "battery not available"
              /\ UNCHANGED db]_vars

\* C7 witness: a Rent of the available battery has just been refused for
\* insufficient balance.
C7_Witness ==
    /\ resp = [msg |-> "insufficient balance", kind |-> "rent", rental_id |-> 0]
    /\ \E u \in UserIds : balance_cents[u] < RENTAL_DEPOSIT_CENTS
    /\ \E b \in BatteryIds : available[b]

\* The checks of a Return transaction run for user u and rental r in this step
\* and leave nothing pending.
ReturnRefused(u, r) ==
    \/ ApiReturnBegin(u, r) /\ UNCHANGED inflight
    \/ \E t \in BagToSet(inflight) :
          /\ t.req.user_id = u /\ t.req.arg = r
          /\ ReturnPageBegin(t)
          /\ inflight' = inflight (-) SetToBag({t})

\* The checks of a Return transaction run for user u and rental r in this step.
ReturnChecked(u, r) ==
    \/ ApiReturnBegin(u, r)
    \/ \E t \in BagToSet(inflight) : t.req.user_id = u /\ t.req.arg = r /\ ReturnPageBegin(t)

\* C8: when a Return transaction runs for the caller's ongoing rental and the
\* price exceeds the caller's balance, the answer is "insufficient balance",
\* nothing stays pending and no row changes: the rental stays ongoing with
\* end_at and price_cents unset.
C8_UnaffordableReturnRefused ==
    [][\A u \in UserIds, r \in RentalIds :
          (/\ ValidRental(u, r)
           /\ balance_cents[u] < Max(1, (now - rentals[r].start_at) \div 60) * PRICE_PER_MINUTE_CENTS
           /\ ReturnChecked(u, r)) =>
              /\ ReturnRefused(u, r)
              /\ resp' = [msg |-> "insufficient balance", kind |-> "return", rental_id |-> 0]
              /\ UNCHANGED db
              /\ rentals'[r].status = "ongoing"
              /\ rentals'[r].end_at = NULL
              /\ rentals'[r].price_cents = NULL]_vars

\* C8 witness: a Return has just been refused for insufficient balance while
\* an ongoing rental costs more than its owner holds and its battery is out.
C8_Witness ==
    /\ resp = [msg |-> "insufficient balance", kind |-> "return", rental_id |-> 0]
    /\ \E r \in RentalIds :
          /\ rentals[r].status = "ongoing"
          /\ rentals[r].end_at = NULL
          /\ balance_cents[rentals[r].user_id] < ((now - rentals[r].start_at) \div 60) * PRICE_PER_MINUTE_CENTS
          /\ ~available[Val(rentals[r].battery_id)]

\* C9: when the transaction of a Return runs for a rental that does not exist,
\* is another user's or is not ongoing, the Return fails with an error, nothing
\* stays pending and no row changes.
C9_InvalidReturnFails ==
    [][\A u \in UserIds, r \in RentalArgs :
          (~ValidRental(u, r) /\ ReturnChecked(u, r)) =>
              /\ ReturnRefused(u, r)
              /\ resp'.kind = "return"
              /\ resp'.msg \in {"invalid rental", "insufficient balance"}
              /\ UNCHANGED db]_vars

\* The fee of a rental that lasted e seconds, e >= 0: one rate per whole
\* minute, and one rate when it lasted less than a minute.
Fee(e) ==
    IF e < 60 THEN PRICE_PER_MINUTE_CENTS
    ELSE ((e - (e % 60)) \div 60) * PRICE_PER_MINUTE_CENTS

\* C10: the fee a Return settles is max(1, floor(seconds / 60)) * rate for the
\* rental's start time and the end time, not earlier, the Return took: that is
\* the price it computed, the amount it takes off the balance it loaded and the
\* price_cents it writes; 0 s and 30 s cost 10, 150 s cost 20.
C10_FeeFormula ==
    [][/\ Price(now, now) = 10 /\ Price(now, now + 30) = 10 /\ Price(now, now + 150) = 20
       /\ \A t \in BagToSet(inflight) :
             (ReturnCommit(t) /\ t.loaded.end_time >= Val(t.loaded.rental).start_at) =>
                 LET fee == Fee(t.loaded.end_time - Val(t.loaded.rental).start_at)
                 IN /\ t.loaded.price = fee
                    /\ balance_cents'[t.req.user_id] = t.loaded.balance - fee
                    /\ Undisturbed(t) => rentals'[t.req.arg].price_cents = Some(fee)]_vars

\* C10 witness: a rental that lasted 6090 seconds has just been settled for
\* 101 minutes, 1010.
C10_Witness ==
    /\ resp.msg = "returned"
    /\ LET row == rentals[resp.rental_id]
       IN /\ Val(row.end_at) - row.start_at = 6090
          /\ row.price_cents = Some(1010)

\* C11: when the clock reads a time before the rental's start, Return treats
\* it as an input error: the Return transaction of the caller's ongoing rental
\* fails, nothing stays pending and no row changes.
C11_SkewRefused ==
    [][\A r \in {i \in RentalIds : rentals[i].status = "ongoing" /\ now < rentals[i].start_at} :
          ReturnChecked(rentals[r].user_id, r) =>
              /\ ReturnRefused(rentals[r].user_id, r)
              /\ resp'.kind = "return"
              /\ resp'.msg # "none"
              /\ UNCHANGED db]_vars

\* C12: the price a Return computes and stores is never negative, so the
\* rental it settles never gets a negative price_cents and its commit never
\* leaves the user's balance higher than it was.
C12_PriceNeverNegative ==
    [][\A t \in BagToSet(inflight) :
          ReturnCommit(t) =>
              /\ t.loaded.price >= 0
              /\ rentals'[t.req.arg].price_cents # NULL
              /\ Val(rentals'[t.req.arg].price_cents) >= 0
              /\ balance_cents'[t.req.user_id] <= balance_cents[t.req.user_id]]_vars

\* C13: rows are created only as "ongoing" or "charged", the only status
\* change is from "ongoing" to "returned", and a row that is "returned" or
\* "charged" is never changed again.
C13_Lifecycle ==
    [][/\ Len(rentals') >= Len(rentals)
       /\ \A r \in (Len(rentals) + 1)..Len(rentals') :
             rentals'[r].status \in {"ongoing", "charged"}
       /\ \A r \in RentalIds :
             /\ rentals'[r].status # rentals[r].status =>
                    (rentals[r].status = "ongoing" /\ rentals'[r].status = "returned")
             /\ rentals[r].status \in {"returned", "charged"} =>
                    rentals'[r] = rentals[r]]_vars

\* The answers that report a failure.
Failures ==
    {"battery not available", "insufficient balance", "rental failed", "server error",
     "invalid rental", "return failed", "invalid amount", "charge failed"}

\* C14: a request that fails, inside its transaction or before it, commits
\* nothing; and every step that commits is whole: a battery becomes
\* unavailable only together with its new ongoing rental, a balance goes down
\* only together with a rental of that user becoming returned, and goes up only
\* together with a new charged record of that amount.
C14_NoPartialMutation ==
    [][/\ resp'.msg \in Failures => UNCHANGED db
       /\ \A b \in BatteryIds :
             (available[b] /\ ~available'[b]) =>
                 /\ Len(rentals') = Len(rentals) + 1
                 /\ rentals'[Len(rentals')].status = "ongoing"
                 /\ rentals'[Len(rentals')].battery_id = Some(b)
       /\ \A u \in user_rows :
             /\ balance_cents'[u] < balance_cents[u] =>
                    \E r \in RentalIds :
                        /\ rentals[r].user_id = u
                        /\ rentals[r].status = "ongoing"
                        /\ rentals'[r].status = "returned"
                        /\ rentals'[r].price_cents = Some(balance_cents[u] - balance_cents'[u])
             /\ balance_cents'[u] > balance_cents[u] =>
                    /\ Len(rentals') = Len(rentals) + 1
                    /\ rentals'[Len(rentals')].user_id = u
                    /\ rentals'[Len(rentals')].status = "charged"
                    /\ rentals'[Len(rentals')].price_cents = Some(balance_cents[u] - balance_cents'[u])]_vars

\* C14 witness: a page Return has just failed inside its transaction, after
\* it had assigned the debit, and the rental is still ongoing and unsettled,
\* its battery still out and the balance what the ledger says.
C14_Witness ==
    /\ resp = [msg |-> "return failed", kind |-> "return", rental_id |-> 0]
    /\ \E r \in RentalIds :
          /\ rentals[r].status = "ongoing"
          /\ rentals[r].end_at = NULL
          /\ rentals[r].price_cents = NULL
          /\ ~available[Val(rentals[r].battery_id)]
          /\ balance_cents[rentals[r].user_id] = Ledger(rentals[r].user_id, Len(rentals))

\* C15: an operation holds every row it will write from its read of the row to
\* its commit: when a Rent, Return or Charge commits, the battery, rental and
\* user rows it writes are still as it read them, no other transaction having
\* committed a write to them in between.
C15_RowsHeldUntilCommit ==
    [][\A t \in BagToSet(inflight) :
          /\ RentCommit(t) => available[t.req.arg] = Val(t.loaded.available)
          /\ ReturnCommit(t) => Undisturbed(t)
          /\ ChargeCommit(t) => balance_cents[t.req.user_id] = t.loaded.balance]_vars

\* C16: a Charge that succeeds raises the user's balance by exactly its amount
\* and inserts exactly one row, charged, without battery, with price_cents the
\* negated amount, in the same commit, and changes no other row.
C16_ChargeCredits ==
    [][\A t \in BagToSet(inflight) :
          ChargeCommit(t) =>
              /\ resp'.msg = "charged"
              /\ balance_cents'[t.req.user_id] - balance_cents[t.req.user_id] = t.req.arg
              /\ \A u \in user_rows \ {t.req.user_id} : balance_cents'[u] = balance_cents[u]
              /\ Len(rentals') = Len(rentals) + 1
              /\ SubSeq(rentals', 1, Len(rentals)) = rentals
              /\ rentals'[Len(rentals')].user_id = t.req.user_id
              /\ rentals'[Len(rentals')].status = "charged"
              /\ rentals'[Len(rentals')].battery_id = NULL
              /\ rentals'[Len(rentals')].price_cents = Some(-t.req.arg)]_vars

\* The price_cents of the charged rows of user u, oldest first.
ChargedPrices(u) ==
    LET IsCharge(row) == row.user_id = u /\ row.status = "charged"
        rows == SelectSeq(rentals, IsCharge)
    IN [i \in 1..Len(rows) |-> Val(rows[i].price_cents)]

\* The amounts a Charge may credit: what int() makes of the positive inputs.
CreditedAmounts ==
    {n \in {PyInt(raw) : raw \in {x \in AmountInputs : x.type # "text"}} : n > 0}

\* C17: Charge is additive and its order does not matter: once a user who has
\* returned nothing has been charged a and then b, one Charge after the other,
\* the balance is the initial balance plus a + b, whichever of the two amounts
\* came first.
C17_ChargeCommutes ==
    \A u \in user_rows, a \in CreditedAmounts, b \in CreditedAmounts :
        (/\ ChargedPrices(u) = <<-INITIAL_BALANCE_CENTS, -a, -b>>
         /\ \A r \in RentalIds : ~(rentals[r].user_id = u /\ rentals[r].status = "returned")) =>
            balance_cents[u] = INITIAL_BALANCE_CENTS + a + b

\* C17 witness: user 1 has been charged 500 and then 300 and holds the
\* initial balance plus 800.
C17_Witness ==
    /\ ChargedPrices(1) = <<-INITIAL_BALANCE_CENTS, -500, -300>>
    /\ balance_cents[1] = INITIAL_BALANCE_CENTS + 800

\* C18: a Charge by a registered user whose amount is not a strictly positive
\* integer (zero, negative, a number with a fraction, a text) is answered
\* "invalid amount", stays pending nowhere, and changes no balance and no row.
C18_InvalidAmountRefused ==
    [][\A u \in UserArgs \cap user_rows, raw \in AmountInputs :
          (~(raw.type = "int" /\ raw.v > 0) /\ (ApiCharge(u, raw) \/ ChargePage(u, raw))) =>
              /\ resp' = [msg |-> "invalid amount", kind |-> "charge", rental_id |-> 0]
              /\ UNCHANGED inflight
              /\ UNCHANGED db]_vars

\* C19: a Rent whose battery has no row or is unavailable is answered
\* "battery not available"; a Rent (with an available battery) or a Charge
\* (with a valid amount) by a user id that has no user row is answered
\* "user not found"; in each case nothing stays pending, no Rental is inserted
\* and no battery or balance changes.
C19_MissingReferencesRefused ==
    [][/\ \A u \in UserArgs, b \in BatteryArgs :
            ((b \notin BatteryIds \/ ~available[b]) /\ (ApiRentBegin(u, b) \/ RentPagePre(u, b))) =>
                /\ resp' = [msg |-> "battery not available", kind |-> "rent", rental_id |-> 0]
                /\ UNCHANGED inflight
                /\ UNCHANGED db
       /\ \A u \in UserArgs \ user_rows, b \in BatteryArgs :
            (b \in BatteryIds /\ available[b] /\ (ApiRentBegin(u, b) \/ RentPagePre(u, b))) =>
                /\ resp' = [msg |-> "user not found", kind |-> "rent", rental_id |-> 0]
                /\ UNCHANGED inflight
                /\ UNCHANGED db
       /\ \A u \in UserArgs \ user_rows, raw \in AmountInputs :
            (raw.type = "int" /\ raw.v > 0 /\ (ApiCharge(u, raw) \/ ChargePage(u, raw))) =>
                /\ resp' = [msg |-> "user not found", kind |-> "charge", rental_id |-> 0]
                /\ UNCHANGED inflight
                /\ UNCHANGED db]_vars

\* C20: a history answer lists every Rental row of the user, the charged
\* records with a null battery included, each exactly once and ordered by
\* start_at descending.
C20_HistoryComplete ==
    resp.msg = "history" =>
        LET owned == {r \in RentalIds : rentals[r].user_id = resp.user_id}
        IN /\ {resp.rows[i] : i \in DOMAIN resp.rows} = owned
           /\ Cardinality(DOMAIN resp.rows) = Cardinality(owned)
           /\ \A i, j \in DOMAIN resp.rows :
                  i < j => rentals[resp.rows[i]].start_at >= rentals[resp.rows[j]].start_at

\* C21: in every committed state a Rental's end_at is set if and only if its
\* status is returned; ongoing and charged records have it unset.
C21_EndAtIffReturned ==
    \A r \in RentalIds : (rentals[r].end_at # NULL) <=> (rentals[r].status = "returned")

\* C21 witness: a returned rental with its end_at, next to a charged record
\* and an ongoing rental without one.
C21_Witness ==
    /\ \E r \in RentalIds : rentals[r].status = "returned" /\ rentals[r].end_at # NULL
    /\ \E r \in RentalIds : rentals[r].status = "ongoing" /\ rentals[r].end_at = NULL
    /\ \E r \in RentalIds : rentals[r].status = "charged" /\ rentals[r].end_at = NULL

\* C22: in every committed state a returned Rental has a price_cents that is
\* set and not negative, a charged one a price_cents that is set and strictly
\* negative, and an ongoing one has price_cents unset.
C22_PriceSetOnceSettled ==
    \A r \in RentalIds :
        /\ rentals[r].status = "returned" =>
               rentals[r].price_cents # NULL /\ Val(rentals[r].price_cents) >= 0
        /\ rentals[r].status = "charged" =>
               rentals[r].price_cents # NULL /\ Val(rentals[r].price_cents) < 0
        /\ rentals[r].status = "ongoing" => rentals[r].price_cents = NULL

\* C22 witness: a returned rental with its price and a record of a Charge
\* request with its negative amount, in one state.
C22_Witness ==
    /\ \E r \in RentalIds :
          /\ rentals[r].status = "returned"
          /\ rentals[r].price_cents # NULL
          /\ Val(rentals[r].price_cents) >= PRICE_PER_MINUTE_CENTS
    /\ \E r \in RentalIds :
          rentals[r].status = "charged" /\ rentals[r].price_cents = Some(-500)

\* C23: every user's balance_cents is >= 0 in every committed state, whatever
\* the interleaving of Rent, Return and Charge.
C23_BalanceNeverNegative ==
    \A u \in user_rows : balance_cents[u] >= 0

\* C23 witness: two different rentals of user 1 have been returned by
\* overlapping Returns (the balance lacks one of the two debits the rows
\* record) and the balance is not negative.
C23_Witness ==
    /\ \E r1, r2 \in RentalIds :
          /\ r1 # r2
          /\ rentals[r1].user_id = 1 /\ rentals[r1].status = "returned"
          /\ rentals[r2].user_id = 1 /\ rentals[r2].status = "returned"
    /\ balance_cents[1] > Ledger(1, Len(rentals))
    /\ balance_cents[1] >= 0

\* C24: no step of a Rent, refused or successful, changes any user's balance,
\* and so no step that answers a Rent does: the deposit is compared with the
\* balance and not withdrawn.
C24_RentKeepsBalance ==
    [][/\ \A u \in UserIds, b \in BatteryIds :
            (ApiRentBegin(u, b) \/ RentPagePre(u, b)) => UNCHANGED balance_cents
       /\ \A t \in BagToSet(inflight) :
            (RentPageBegin(t) \/ RentCommit(t)) => UNCHANGED balance_cents
       /\ resp'.kind = "rent" => UNCHANGED balance_cents]_vars

\* C24 witness: a Rent has just succeeded, its rental is ongoing, and the
\* renter still holds the whole initial balance.
C24_Witness ==
    /\ resp.msg = "rented"
    /\ rentals[resp.rental_id].status = "ongoing"
    /\ balance_cents[rentals[resp.rental_id].user_id] = INITIAL_BALANCE_CENTS

\* C25: a Return called with a return station is served with that station,
\* by the page handler and by the API handler, and a successful Return stores
\* the station it was called with in the rental's return_station_id, leaving
\* it null when it was called with none.
C25_ReturnStationStored ==
    [][/\ \A u \in UserArgs, r \in RentalArgs, s \in StationInputs \ {NotAnInt} :
            /\ (ReturnPagePre(u, r, s) /\ inflight' # inflight) =>
                   \E t \in BagToSet(inflight') : t.req = Request("return", u, r, s)
            /\ (ApiReturn(u, r, s) /\ inflight' # inflight) =>
                   \E t \in BagToSet(inflight') : t.req = Request("return", u, r, s)
       /\ \A t \in BagToSet(inflight) :
            ReturnCommit(t) => rentals'[t.req.arg].return_station_id = t.req.station]_vars

\* C26: a successful Return, also one that names another station than the
\* battery's, leaves every battery's station_id as it was: the battery is
\* available again and counted at its own station, and the count of the
\* station the Return named is what it was.
C26_ReturnKeepsStation ==
    [][\A t \in BagToSet(inflight) :
          ReturnCommit(t) =>
              LET b == Val(Val(t.loaded.rental).battery_id)
              IN /\ station_id' = station_id
                 /\ available'[b]
                 /\ get_available_batteries_count(Val(station_id[b]))' >= 1
                 /\ (t.req.station # NULL /\ t.req.station # station_id[b]) =>
                        get_available_batteries_count(Val(t.req.station))' =
                            get_available_batteries_count(Val(t.req.station))]_vars

\* C26 witness: a Return that named station 2 has succeeded and recorded it,
\* and the battery is still in station 1, counted there and not in station 2.
C26_Witness ==
    /\ resp.msg = "returned"
    /\ rentals[resp.rental_id].return_station_id = Some(2)
    /\ station_id[Val(rentals[resp.rental_id].battery_id)] = Some(1)
    /\ get_available_batteries_count(1) = 1
    /\ get_available_batteries_count(2) = 0

\* The balances of the users other than u, and the status, end_at and
\* price_cents of the rentals of the users other than u, are left as they are.
OthersUntouched(u) ==
    /\ \A v \in user_rows \ {u} : balance_cents'[v] = balance_cents[v]
    /\ \A r \in RentalIds :
          rentals[r].user_id # u =>
              /\ rentals'[r].status = rentals[r].status
              /\ rentals'[r].end_at = rentals[r].end_at
              /\ rentals'[r].price_cents = rentals[r].price_cents

\* C27: no step of a Rent, Return or Charge invoked with user id u changes the
\* balance of another user or the status, end_at or price_cents of a Rental
\* of another user, in any interleaving.
C27_OtherUsersUntouched ==
    [][/\ \A u \in UserIds :
            /\ \A b \in BatteryIds :
                  (ApiRentBegin(u, b) \/ RentPagePre(u, b)) => OthersUntouched(u)
            /\ \A r \in RentalArgs :
                  (ApiReturnBegin(u, r) \/ \E s \in StationArgs : ReturnPagePre(u, r, s)) =>
                      OthersUntouched(u)
            /\ \A a \in ChargeAmounts :
                  (ApiChargeBegin(u, a) \/ ChargePageBegin(u, a)) => OthersUntouched(u)
       /\ \A t \in BagToSet(inflight) :
            (\/ RentPageBegin(t) \/ RentCommit(t)
             \/ ReturnPageBegin(t) \/ ReturnCommit(t)
             \/ ChargeCommit(t)) => OthersUntouched(t.req.user_id)]_vars

\* C27 witness: a Return of user 1 has just been settled while user 2 has an
\* ongoing rental and the balance registration gave.
C27_Witness ==
    /\ resp.msg = "returned"
    /\ rentals[resp.rental_id].user_id = 1
    /\ rentals[resp.rental_id].status = "returned"
    /\ \E r \in RentalIds : rentals[r].user_id = 2 /\ rentals[r].status = "ongoing"
    /\ balance_cents[2] = INITIAL_BALANCE_CENTS

====
